---- MODULE Spec2Model ----
(***************************************************************************)
(* Model of fletcher/string_array.py: the append-only                      *)
(* NumbaStringArrayBuilder (validity bitmap, offsets, data, positions and  *)
(* capacities) and the read-only NumbaStringArray view over its buffers.   *)
(* Buffers are sequences; the code's 0-based index i is element i + 1.     *)
(***************************************************************************)
EXTENDS Integers, Sequences, FiniteSets, TLC

\* ------------------------------------------------------------------ bounds
MaxCapacity == 2      \* initial capacities are drawn from 0..MaxCapacity
MaxStrings == 3       \* elements sealed in one run of Spec
MaxBytes == 3         \* bytes appended in one run of Spec
MaxReuse == 1         \* appends issued after finish() in one run of SpecReuse
MaxDirect == 1        \* direct increase_*_capacity calls that grow, in one run
DirectStrings == 2    \* elements sealed in one run of SpecDirect
DirectBytes == 2      \* bytes appended in one run of SpecDirect
ReuseStrings == 2     \* elements sealed before finish() in one run of SpecReuse
ReuseBytes == 2       \* bytes appended before finish() in one run of SpecReuse
LongStrings == 9      \* elements sealed in one run of SpecLong
LongBytes == 1        \* bytes appended in one run of SpecLong

ByteVals == {65, 200}             \* one ASCII byte, one byte above 127
LongByteVals == {200}
LongStringCaps == {0, 1, 9}       \* initial string capacities of SpecLong
LongByteCaps == {1}

VARIABLES
    missing,          \* builder: validity bitmap, uint8[:]
    offsets,          \* builder: uint32[:]
    data,             \* builder: uint8[:]
    string_position,
    byte_position,
    string_capacity,
    byte_capacity,
    phase,            \* "building" | "finished" | "reused" (appended after finish)
    op,               \* the call that produced this state
    arg,              \* its argument (0 when it has none)
    raised,           \* "" or the exception the call ended with
    oob,              \* the call indexed outside a buffer
    elems,            \* history: the elements the caller asked to seal
    pending,          \* history: bytes the caller asked to append since then
    failed,           \* history: some append or seal of this run raised
    reuse,            \* appends issued after finish()
    direct,           \* direct increase_*_capacity calls that grew a buffer
    call,             \* TextAccessor: the method called and its arguments
    pc,               \* TextAccessor: position inside the called method
    chunk_idx,        \* _call_x_with: chunks the for loop has gone through
    offset,           \* _call_x_with: output base offset of the next chunk
    output,           \* _call_x_with: result, the uint8 output buffer
    calls,            \* history: the impl invocations and what they wrote
    ret               \* TextAccessor: what the method returned or raised

vars == <<missing, offsets, data, string_position, byte_position,
          string_capacity, byte_capacity, phase, op, arg, raised, oob,
          elems, pending, failed, reuse, direct,
          call, pc, chunk_idx, offset, output, calls, ret>>

\* the variables of a builder run
builder_vars == <<missing, offsets, data, string_position, byte_position,
                  string_capacity, byte_capacity, phase, op, arg, raised, oob,
                  elems, pending, failed, reuse, direct>>

\* the variables of a TextAccessor call
accessor_vars == <<call, pc, chunk_idx, offset, output, calls, ret>>

\* ----------------------------------------------------------------- helpers
Min(a, b) == IF a < b THEN a ELSE b

\* np.zeros(n, ...) / np.ones(n, ...)
Zeros(n) == [i \in 1..n |-> 0]
Ones(n) == [i \in 1..n |-> 1]

\* a[:n]
Prefix(a, n) == [i \in 1..Min(n, Len(a)) |-> a[i]]

\* bit n of a uint8
Bit(byte, n) == (byte \div (2 ^ n)) % 2

\* byte | (1 << n)
OrBit(byte, n) == IF Bit(byte, n) = 1 THEN byte ELSE byte + 2 ^ n

\* byte & ~(1 << n)
AndNotBit(byte, n) == IF Bit(byte, n) = 1 THEN byte - 2 ^ n ELSE byte

\* int(math.ceil(1.2 * capacity)); the float product rounds to the exact
\* ceiling for every capacity below 200000
Grow(capacity) == (6 * capacity + 4) \div 5

_missing_capactiy(capacity) == (capacity + 7) \div 8

\* dst[:n] = src with numpy's rule: equal length, or a length-1 src broadcast
CanAssign(n, src) == Len(src) = n \/ Len(src) = 1

SliceAssign(dst, n, src) ==
    [i \in 1..Len(dst) |->
        IF i <= n THEN (IF Len(src) = n THEN src[i] ELSE src[1]) ELSE dst[i]]

\* a[idx] = val; a store outside the buffer leaves the buffer as it is
Store(a, idx, val) == IF idx < Len(a) THEN [a EXCEPT ![idx + 1] = val] ELSE a

\* ----------------------------------------------------------------- builder
self ==
    [missing |-> missing, offsets |-> offsets, data |-> data,
     string_position |-> string_position, byte_position |-> byte_position,
     string_capacity |-> string_capacity, byte_capacity |-> byte_capacity,
     raised |-> "", oob |-> FALSE]

Raise(b, exc) == [b EXCEPT !.raised = exc]

\* NumbaStringArrayBuilder.__init__
NewBuilder(sc, bc) ==
    [missing |-> Ones(_missing_capactiy(sc)), offsets |-> Zeros(sc + 1),
     data |-> Zeros(bc), string_position |-> 0, byte_position |-> 0,
     string_capacity |-> sc, byte_capacity |-> bc,
     raised |-> "", oob |-> FALSE]

\* mutation of increase_string_capacity: the assert is gone and a capacity
\* that is not larger is silently ignored
increase_string_capacity_no_assert(b, capacity) ==
    IF ~(capacity > b.string_capacity) THEN b
    ELSE IF ~CanAssign(_missing_capactiy(b.string_capacity), b.missing)
    THEN Raise(b, "ValueError")
    ELSE LET m == SliceAssign(Zeros(_missing_capactiy(capacity)),
                              _missing_capactiy(b.string_capacity), b.missing)
             b1 == [b EXCEPT !.missing = m]
         IN IF ~CanAssign(b.string_capacity + 1, b.offsets)
            THEN Raise(b1, "ValueError")
            ELSE [b1 EXCEPT
                    !.offsets = SliceAssign(Zeros(capacity + 1),
                                            b.string_capacity + 1, b.offsets),
                    !.string_capacity = capacity]

\* mutation of increase_string_capacity: the grown bitmap starts all valid
\* and the old bitmap is not copied into it
increase_string_capacity_fresh_bitmap(b, capacity) ==
    IF ~(capacity > b.string_capacity) THEN Raise(b, "AssertionError")
    ELSE LET b1 == [b EXCEPT !.missing = Ones(_missing_capactiy(capacity))]
         IN IF ~CanAssign(b.string_capacity + 1, b.offsets)
            THEN Raise(b1, "ValueError")
            ELSE [b1 EXCEPT
                    !.offsets = SliceAssign(Zeros(capacity + 1),
                                            b.string_capacity + 1, b.offsets),
                    !.string_capacity = capacity]

increase_string_capacity(b, capacity) ==
    IF ~(capacity > b.string_capacity) THEN Raise(b, "AssertionError")
    ELSE IF ~CanAssign(_missing_capactiy(b.string_capacity), b.missing)
    THEN Raise(b, "ValueError")
    ELSE LET m == SliceAssign(Zeros(_missing_capactiy(capacity)),
                              _missing_capactiy(b.string_capacity), b.missing)
             b1 == [b EXCEPT !.missing = m]
         IN IF ~CanAssign(b.string_capacity + 1, b.offsets)
            THEN Raise(b1, "ValueError")
            ELSE [b1 EXCEPT
                    !.offsets = SliceAssign(Zeros(capacity + 1),
                                            b.string_capacity + 1, b.offsets),
                    !.string_capacity = capacity]

\* mutation of increase_byte_capacity: the old bytes are not copied over
increase_byte_capacity_no_copy(b, capacity) ==
    IF ~(capacity > b.byte_capacity) THEN Raise(b, "AssertionError")
    ELSE [b EXCEPT !.data = Zeros(capacity), !.byte_capacity = capacity]

increase_byte_capacity(b, capacity) ==
    IF ~(capacity > b.byte_capacity) THEN Raise(b, "AssertionError")
    ELSE IF ~CanAssign(b.byte_capacity, b.data) THEN Raise(b, "ValueError")
    ELSE [b EXCEPT
            !.data = SliceAssign(Zeros(capacity), b.byte_capacity, b.data),
            !.byte_capacity = capacity]

\* mutation of put_byte: the growth test is > instead of >=
put_byte_late_growth(b0, x) ==
    LET b == IF b0.byte_position > b0.byte_capacity
             THEN increase_byte_capacity(b0, Grow(b0.byte_capacity))
             ELSE b0
    IN IF b.raised # "" THEN {b}
       ELSE LET done == [b EXCEPT !.data = Store(b.data, b.byte_position, x),
                                  !.byte_position = b.byte_position + 1]
            IN IF b.byte_position < Len(b.data) THEN {done}
               ELSE {[Raise(b, "IndexError") EXCEPT !.oob = TRUE],
                     [done EXCEPT !.oob = TRUE]}

\* The jitted class does no bounds checking: a store outside a buffer is
\* undefined.  Two outcomes are modelled: the store is caught (IndexError,
\* as with bounds checking enabled) or it lands outside the buffer and the
\* call carries on.  Each method returns the set of its possible outcomes.
put_byte(b0, x) ==
    LET b == IF b0.byte_position >= b0.byte_capacity
             THEN increase_byte_capacity(b0, Grow(b0.byte_capacity))
             ELSE b0
    IN IF b.raised # "" THEN {b}
       ELSE LET done == [b EXCEPT !.data = Store(b.data, b.byte_position, x),
                                  !.byte_position = b.byte_position + 1]
            IN IF b.byte_position < Len(b.data) THEN {done}
               ELSE {[Raise(b, "IndexError") EXCEPT !.oob = TRUE],
                     [done EXCEPT !.oob = TRUE]}

\* mutation of finish_string: the end offset is stored at string_position
\* instead of string_position + 1
finish_string_offset_at_position(b0) ==
    LET b == IF b0.string_position >= b0.string_capacity
             THEN increase_string_capacity(b0, Grow(b0.string_capacity))
             ELSE b0
        sp == b.string_position
        byte_idx == sp \div 8
        inMis == byte_idx < Len(b.missing)
        b1 == [b EXCEPT !.offsets = Store(b.offsets, sp, b.byte_position)]
        m == IF inMis
             THEN Store(b.missing, byte_idx, OrBit(b.missing[byte_idx + 1], sp % 8))
             ELSE b.missing
        done == [b1 EXCEPT !.missing = m, !.string_position = sp + 1]
    IN IF b.raised # "" THEN {b}
       ELSE IF inMis THEN {done}
       ELSE {[Raise(b1, "IndexError") EXCEPT !.oob = TRUE],
             [done EXCEPT !.oob = TRUE]}

finish_string(b0) ==
    LET b == IF b0.string_position >= b0.string_capacity
             THEN increase_string_capacity(b0, Grow(b0.string_capacity))
             ELSE b0
        sp == b.string_position
        byte_idx == sp \div 8
        inOff == sp + 1 < Len(b.offsets)
        inMis == byte_idx < Len(b.missing)
        b1 == [b EXCEPT !.offsets = Store(b.offsets, sp + 1, b.byte_position)]
        m == IF inMis
             THEN Store(b.missing, byte_idx, OrBit(b.missing[byte_idx + 1], sp % 8))
             ELSE b.missing
        done == [b1 EXCEPT !.missing = m, !.string_position = sp + 1]
    IN IF b.raised # "" THEN {b}
       ELSE IF inOff /\ inMis THEN {done}
       ELSE {[Raise(IF inOff THEN b1 ELSE b, "IndexError") EXCEPT !.oob = TRUE],
             [done EXCEPT !.oob = TRUE]}

\* mutation of finish_null: the offset of the null element is not recorded
finish_null_no_offset(b0) ==
    LET b == IF b0.string_position >= b0.string_capacity
             THEN increase_string_capacity(b0, Grow(b0.string_capacity))
             ELSE b0
        sp == b.string_position
        byte_idx == sp \div 8
        inMis == byte_idx < Len(b.missing)
        m == IF inMis
             THEN Store(b.missing, byte_idx, AndNotBit(b.missing[byte_idx + 1], sp % 8))
             ELSE b.missing
        done == [b EXCEPT !.missing = m, !.string_position = sp + 1]
    IN IF b.raised # "" THEN {b}
       ELSE IF inMis THEN {done}
       ELSE {[Raise(b, "IndexError") EXCEPT !.oob = TRUE],
             [done EXCEPT !.oob = TRUE]}

finish_null(b0) ==
    LET b == IF b0.string_position >= b0.string_capacity
             THEN increase_string_capacity(b0, Grow(b0.string_capacity))
             ELSE b0
        sp == b.string_position
        byte_idx == sp \div 8
        inOff == sp + 1 < Len(b.offsets)
        inMis == byte_idx < Len(b.missing)
        b1 == [b EXCEPT !.offsets = Store(b.offsets, sp + 1, b.byte_position)]
        m == IF inMis
             THEN Store(b.missing, byte_idx, AndNotBit(b.missing[byte_idx + 1], sp % 8))
             ELSE b.missing
        done == [b1 EXCEPT !.missing = m, !.string_position = sp + 1]
    IN IF b.raised # "" THEN {b}
       ELSE IF inOff /\ inMis THEN {done}
       ELSE {[Raise(IF inOff THEN b1 ELSE b, "IndexError") EXCEPT !.oob = TRUE],
             [done EXCEPT !.oob = TRUE]}

\* mutation of finish: the capacities are lowered to the trimmed lengths
finish_lowers_capacity(b) ==
    [b EXCEPT !.missing = Prefix(b.missing, _missing_capactiy(b.string_position)),
              !.offsets = Prefix(b.offsets, b.string_position + 1),
              !.data = Prefix(b.data, b.byte_position),
              !.string_capacity = Min(b.string_capacity, b.string_position),
              !.byte_capacity = Min(b.byte_capacity, b.byte_position)]

\* mutation of finish: the unused tail (capacity - position entries) is cut
\* off the end of each buffer
finish_cuts_tail(b) ==
    [b EXCEPT !.missing = Prefix(b.missing,
                                 Len(b.missing) - (_missing_capactiy(b.string_capacity)
                                     - _missing_capactiy(b.string_position))),
              !.offsets = Prefix(b.offsets,
                                 Len(b.offsets) - (b.string_capacity - b.string_position)),
              !.data = Prefix(b.data,
                              Len(b.data) - (b.byte_capacity - b.byte_position))]

\* mutation of finish: offsets is cut to string_position entries
finish_offsets_short(b) ==
    [b EXCEPT !.missing = Prefix(b.missing, _missing_capactiy(b.string_position)),
              !.offsets = Prefix(b.offsets, b.string_position),
              !.data = Prefix(b.data, b.byte_position)]

finish(b) ==
    [b EXCEPT !.missing = Prefix(b.missing, _missing_capactiy(b.string_position)),
              !.offsets = Prefix(b.offsets, b.string_position + 1),
              !.data = Prefix(b.data, b.byte_position)]

\* ----------------------------------------------------------------- actions
Apply(r, name, a) ==
    /\ missing' = r.missing
    /\ offsets' = r.offsets
    /\ data' = r.data
    /\ string_position' = r.string_position
    /\ byte_position' = r.byte_position
    /\ string_capacity' = r.string_capacity
    /\ byte_capacity' = r.byte_capacity
    /\ raised' = r.raised
    /\ oob' = r.oob
    /\ op' = name
    /\ arg' = a
    /\ UNCHANGED accessor_vars

\* bytes the caller has asked to append so far
RECURSIVE SumLen(_)
SumLen(es) == IF es = <<>> THEN 0 ELSE Len(Head(es).bytes) + SumLen(Tail(es))

Requested == SumLen(elems) + Len(pending)

\* the caller's input is recorded up to and including the first call that
\* raises: the exception ends the caller's build
Recording == phase = "building" /\ ~failed

\* an append or seal moves a finished builder to "reused"
Append1(r) ==
    /\ phase # "building" => reuse < MaxReuse
    /\ phase' = IF phase = "building" THEN "building" ELSE "reused"
    /\ reuse' = IF phase = "building" THEN reuse ELSE reuse + 1
    /\ failed' = (failed \/ (phase = "building" /\ r.raised # ""))
    /\ UNCHANGED direct

InitWith(scs, bcs) ==
    \E sc \in scs, bc \in bcs :
        /\ missing = NewBuilder(sc, bc).missing
        /\ offsets = NewBuilder(sc, bc).offsets
        /\ data = NewBuilder(sc, bc).data
        /\ string_position = NewBuilder(sc, bc).string_position
        /\ byte_position = NewBuilder(sc, bc).byte_position
        /\ string_capacity = NewBuilder(sc, bc).string_capacity
        /\ byte_capacity = NewBuilder(sc, bc).byte_capacity
        /\ raised = ""
        /\ oob = FALSE
        /\ op = "init"
        /\ arg = 0
        /\ phase = "building"
        /\ elems = <<>>
        /\ pending = <<>>
        /\ failed = FALSE
        /\ reuse = 0
        /\ direct = 0
        /\ call = [fn |-> "none"]
        /\ pc = "idle"
        /\ chunk_idx = 0
        /\ offset = 0
        /\ output = <<>>
        /\ calls = <<>>
        /\ ret = [raised |-> ""]

PutByte(x, lim) ==
    /\ phase = "building" => (Requested < lim /\ byte_position < lim)
    /\ \E r \in put_byte(self, x) :
        /\ Apply(r, "put_byte", x)
        /\ Append1(r)
        /\ pending' = IF Recording THEN Append(pending, x) ELSE pending
        /\ UNCHANGED elems

FinishString(lim) ==
    /\ phase = "building" => (Len(elems) < lim /\ string_position < lim)
    /\ \E r \in finish_string(self) :
        /\ Apply(r, "finish_string", 0)
        /\ Append1(r)
        /\ IF Recording
           THEN /\ elems' = Append(elems, [null |-> FALSE, bytes |-> pending])
                /\ pending' = <<>>
           ELSE UNCHANGED <<elems, pending>>

FinishNull(lim) ==
    /\ phase = "building" => (Len(elems) < lim /\ string_position < lim)
    /\ \E r \in finish_null(self) :
        /\ Apply(r, "finish_null", 0)
        /\ Append1(r)
        /\ IF Recording
           THEN /\ elems' = Append(elems, [null |-> TRUE, bytes |-> pending])
                /\ pending' = <<>>
           ELSE UNCHANGED <<elems, pending>>

Finish ==
    /\ Apply(finish(self), "finish", 0)
    /\ phase' = IF phase = "reused" THEN "reused" ELSE "finished"
    /\ UNCHANGED <<elems, pending, failed, reuse, direct>>

IncreaseStringCapacity(capacity) ==
    /\ direct < MaxDirect
    /\ Apply(increase_string_capacity(self, capacity),
             "increase_string_capacity", capacity)
    /\ direct' = IF increase_string_capacity(self, capacity).raised = ""
                 THEN direct + 1 ELSE direct
    /\ phase' = IF phase = "building" THEN "building" ELSE "reused"
    /\ UNCHANGED <<elems, pending, failed, reuse>>

IncreaseByteCapacity(capacity) ==
    /\ direct < MaxDirect
    /\ Apply(increase_byte_capacity(self, capacity),
             "increase_byte_capacity", capacity)
    /\ direct' = IF increase_byte_capacity(self, capacity).raised = ""
                 THEN direct + 1 ELSE direct
    /\ phase' = IF phase = "building" THEN "building" ELSE "reused"
    /\ UNCHANGED <<elems, pending, failed, reuse>>

Init == InitWith(0..MaxCapacity, 0..MaxCapacity)

\* one builder, any initial capacities, finished once and not touched again
Next ==
    \/ \E x \in ByteVals : phase = "building" /\ PutByte(x, MaxBytes)
    \/ phase = "building" /\ FinishString(MaxStrings)
    \/ phase = "building" /\ FinishNull(MaxStrings)
    \/ phase = "building" /\ Finish

Spec == Init /\ [][Next]_vars

\* long runs of one builder: enough elements for a validity bitmap of two
\* bytes
InitLong == InitWith(LongStringCaps, LongByteCaps)

NextLong ==
    \/ \E x \in LongByteVals : phase = "building" /\ PutByte(x, LongBytes)
    \/ phase = "building" /\ FinishString(LongStrings)
    \/ phase = "building" /\ FinishNull(LongStrings)
    \/ phase = "building" /\ Finish

SpecLong == InitLong /\ [][NextLong]_vars

\* a build during which the caller also calls increase_string_capacity and
\* increase_byte_capacity directly, with capacities below, at and above the
\* current one
InitDirect == InitWith(0..MaxCapacity, 0..MaxCapacity)

NextDirect ==
    \/ \E x \in ByteVals : phase = "building" /\ PutByte(x, DirectBytes)
    \/ phase = "building" /\ FinishString(DirectStrings)
    \/ phase = "building" /\ FinishNull(DirectStrings)
    \/ \E c \in 0..(string_capacity + 1) : IncreaseStringCapacity(c)
    \/ \E c \in 0..(byte_capacity + 1) : IncreaseByteCapacity(c)

SpecDirect == InitDirect /\ [][NextDirect]_vars

\* a builder that is appended to and finished again after finish()
InitReuse == InitWith(0..MaxCapacity, 0..MaxCapacity)

NextReuse ==
    \/ \E x \in ByteVals : PutByte(x, ReuseBytes)
    \/ FinishString(ReuseStrings)
    \/ FinishNull(ReuseStrings)
    \/ Finish

SpecReuse == InitReuse /\ [][NextReuse]_vars

\* -------------------------------------------------------- NumbaStringArray
\* NumbaStringArray.__init__ over the builder's buffers, logical offset k
View(k) == [missing |-> missing, offsets |-> offsets, data |-> data, offset |-> k]

\* byte_size: self.data.shape[0]
byte_size(v) == Len(v.data)

size(v) == Len(v.offsets) - 1 - v.offset

\* mutation of isnull: the bit mask is taken before the offset is added
isnull_mask_without_offset(v, str_idx) ==
    LET idx == str_idx + v.offset
        byte_idx == idx \div 8
    IN Bit(v.missing[byte_idx + 1], str_idx % 8) = 0

isnull(v, str_idx) ==
    LET idx == str_idx + v.offset
        byte_idx == idx \div 8
    IN Bit(v.missing[byte_idx + 1], idx % 8) = 0

\* mutation of byte_length: the logical offset of the view is not added
byte_length_without_offset(v, str_idx) ==
    v.offsets[str_idx + 2] - v.offsets[str_idx + 1]

byte_length(v, str_idx) ==
    LET idx == str_idx + v.offset
    IN v.offsets[idx + 2] - v.offsets[idx + 1]

get_byte(v, str_idx, byte_idx) ==
    LET idx == str_idx + v.offset
        full_idx == v.offsets[idx + 1] + byte_idx
    IN v.data[full_idx + 1]

\* mutation of get: no test for bytes above 127
get_unchecked(v, str_idx, byte_idx) ==
    LET b == get_byte(v, str_idx, byte_idx)
    IN [raised |-> "", b |-> b, inc |-> 1]

\* get returns (b, 1) or raises ValueError
get(v, str_idx, byte_idx) ==
    LET b == get_byte(v, str_idx, byte_idx)
    IN IF b > 127 THEN [raised |-> "ValueError", b |-> 0, inc |-> 0]
       ELSE [raised |-> "", b |-> b, inc |-> 1]

\* the while loop of length(); a raise carries no value (-1)
RECURSIVE length_loop(_, _, _, _)
length_loop(v, str_idx, current, result) ==
    IF current < byte_length(v, str_idx)
    THEN LET g == get(v, str_idx, current)
         IN IF g.raised # "" THEN [raised |-> g.raised, value |-> -1]
            ELSE length_loop(v, str_idx, current + g.inc, result + 1)
    ELSE [raised |-> "", value |-> result]

length(v, str_idx) == length_loop(v, str_idx, 0, 0)

\* mutation of decode's loop: the output position j is not advanced
RECURSIVE decode_loop_fixed_position(_, _, _, _, _)
decode_loop_fixed_position(v, str_idx, i, j, buffer) ==
    IF i < byte_length(v, str_idx)
    THEN LET g == get(v, str_idx, i)
         IN IF g.raised # "" THEN [raised |-> g.raised, value |-> <<>>]
            ELSE decode_loop_fixed_position(v, str_idx, i + g.inc, j,
                                            [buffer EXCEPT ![j + 1] = g.b])
    ELSE [raised |-> "", value |-> Prefix(buffer, j)]

\* the while loop of decode(); a raise carries no value (<<>>)
RECURSIVE decode_loop(_, _, _, _, _)
decode_loop(v, str_idx, i, j, buffer) ==
    IF i < byte_length(v, str_idx)
    THEN LET g == get(v, str_idx, i)
         IN IF g.raised # "" THEN [raised |-> g.raised, value |-> <<>>]
            ELSE decode_loop(v, str_idx, i + g.inc, j + 1,
                             [buffer EXCEPT ![j + 1] = g.b])
    ELSE [raised |-> "", value |-> Prefix(buffer, j)]

decode(v, str_idx) ==
    decode_loop(v, str_idx, 0, 0, Zeros(byte_length(v, str_idx)))


\* ------------------------------------------------------ arrow string arrays
MaxElems == 2
MaxChunks == 2

\* the elements the arrays are made of: a null, "ab" and "b"
XElems ==
    {[null |-> TRUE, bytes |-> <<>>],
     [null |-> FALSE, bytes |-> <<97, 98>>],
     [null |-> FALSE, bytes |-> <<98>>]}

\* the needles: "", "a", "b", "ab" and one non-ASCII character
Needles == {<<>>, <<97>>, <<98>>, <<97, 98>>, <<233>>}

\* es[lo:hi]
Sub(es, lo, hi) == [i \in 1..(hi - lo) |-> es[lo + i]]

\* bytes held by the first n elements of es
RECURSIVE EndOffset(_, _)
EndOffset(es, n) ==
    IF n = 0 THEN 0 ELSE EndOffset(es, n - 1) + Len(es[n].bytes)

\* bits 0..n-1 of byte b of the validity bitmap of es; padding bits are 0
RECURSIVE ValidityByte(_, _, _)
ValidityByte(es, b, n) ==
    IF n = 0 THEN 0
    ELSE ValidityByte(es, b, n - 1)
         + (IF 8 * b + n <= Len(es) /\ ~es[8 * b + n].null
            THEN 2 ^ (n - 1) ELSE 0)

\* pa.array(es, pa.string()): the three buffers, sa.offset and len(sa)
pa_array(es) ==
    [validity |-> [b \in 1..((Len(es) + 7) \div 8) |-> ValidityByte(es, b - 1, 8)],
     offsets |-> [i \in 1..(Len(es) + 1) |-> EndOffset(es, i - 1)],
     data |-> [p \in 1..EndOffset(es, Len(es)) |->
                 LET e == CHOOSE e \in 1..Len(es) :
                              EndOffset(es, e - 1) < p /\ p <= EndOffset(es, e)
                 IN es[e].bytes[p - EndOffset(es, e - 1)]],
     offset |-> 0,
     length |-> Len(es)]

\* sa[k : k + m]: a zero-copy slice, the buffers are shared
slice(sa, k, m) == [sa EXCEPT !.offset = sa.offset + k, !.length = m]

\* a pa.Array / a pa.ChunkedArray as self.data
Continuous(sa) == [chunked |-> FALSE, chunks |-> <<sa>>]
Chunked(chunks) == [chunked |-> TRUE, chunks |-> chunks]

\* len(self.data)
RECURSIVE SumLength(_, _)
SumLength(chunks, n) ==
    IF n = 0 THEN 0 ELSE SumLength(chunks, n - 1) + chunks[n].length

len(array) == SumLength(array.chunks, Len(array.chunks))

\* c + 1 non-decreasing cut points in 0..n
Cuts(c, n) == {b \in [1..(c + 1) -> 0..n] : \A i \in 1..c : b[i] <= b[i + 1]}

\* the arrays made of the elements es: every slice of pa.array(es) as a
\* continuous array, every chunked array whose chunks are consecutive slices
\* of pa.array(es), and every chunked array of separately built chunks
ArraysOf(es) ==
    LET n == Len(es)
        whole == pa_array(es)
    IN {Continuous(slice(whole, k, m)) :
            <<k, m>> \in {km \in (0..n) \X (0..n) : km[1] + km[2] <= n}}
       \cup UNION {{Chunked([i \in 1..c |-> slice(whole, b[i], b[i + 1] - b[i])]) :
                        b \in Cuts(c, n)} : c \in 0..MaxChunks}
       \cup UNION {{Chunked([i \in 1..c |-> pa_array(Sub(es, b[i], b[i + 1]))]) :
                        b \in {b \in Cuts(c, n) : b[1] = 0 /\ b[c + 1] = n}} :
                   c \in 0..MaxChunks}

Arrays == UNION {ArraysOf(es) : es \in UNION {[1..n -> XElems] : n \in 0..MaxElems}}

\* element i of the pa array sa, as to_pylist gives it
ElemOf(sa, i) ==
    LET e == sa.offset + i
    IN [null |-> Bit(sa.validity[(e \div 8) + 1], e % 8) = 0,
        bytes |-> [p \in 1..(sa.offsets[e + 2] - sa.offsets[e + 1]) |->
                      sa.data[sa.offsets[e + 1] + p]]]

\* element g of the array whose chunks from number c on are given
RECURSIVE ElemAt(_, _, _)
ElemAt(chunks, c, g) ==
    IF g < chunks[c].length THEN ElemOf(chunks[c], g)
    ELSE ElemAt(chunks, c + 1, g - chunks[c].length)

\* the logical elements of a continuous or chunked array
Logical(array) == [g \in 1..len(array) |-> ElemAt(array.chunks, 1, g - 1)]

\* no chunk of the array stops before the end of its buffers
NoHeadSlice(array) ==
    \A c \in 1..Len(array.chunks) :
        array.chunks[c].offset + array.chunks[c].length
            = Len(array.chunks[c].offsets) - 1

\* fletcher._algorithms._extract_isnull_bitmap(sa, 0, len(sa))
_extract_isnull_bitmap(sa) == sa.validity

buffers_as_arrays(sa) ==
    [missing |-> _extract_isnull_bitmap(sa),
     offsets |-> sa.offsets,
     data |-> sa.data]

\* NumbaStringArray.make(sa)
_make(sa) ==
    [missing |-> buffers_as_arrays(sa).missing,
     offsets |-> buffers_as_arrays(sa).offsets,
     data |-> buffers_as_arrays(sa).data,
     offset |-> sa.offset]

\* --------------------------------------------------------------- NumbaString
\* one character of str.encode("utf8"), for code points below 2048
Utf8(cp) ==
    IF cp < 128 THEN <<cp>> ELSE <<192 + (cp \div 64), 128 + (cp % 64)>>

RECURSIVE encode(_)
encode(obj) == IF obj = <<>> THEN <<>> ELSE Utf8(Head(obj)) \o encode(Tail(obj))

\* NumbaString.make(obj)
_make_string(obj) == [data |-> encode(obj), start |-> 0, end |-> Len(encode(obj))]

NumbaString_length(str) == str.end - str.start

NumbaString_get_byte(str, i) == str.data[str.start + i + 1]

\* ------------------------------------------------- startswith and endswith
\* fletcher.algorithms.string._startswith: one entry of out per element of sa
RECURSIVE _startswith_loop(_, _, _, _, _, _)
_startswith_loop(sa, needle, na, off, out, i) ==
    IF i < size(sa)
    THEN LET v == IF isnull(sa, i) THEN na
                  ELSE IF byte_length(sa, i) < NumbaString_length(needle) THEN 0
                  ELSE IF \A c \in 0..(NumbaString_length(needle) - 1) :
                             get_byte(sa, i, c) = NumbaString_get_byte(needle, c)
                  THEN 1 ELSE 0
         IN _startswith_loop(sa, needle, na, off, Store(out, off + i, v), i + 1)
    ELSE out

\* The algorithms are jitted without bounds checking: a store past the end of
\* out is undefined.  As for the builder, two outcomes are modelled: the
\* store is caught (IndexError) or it is lost and the call carries on.
_startswith(sa, needle, na, off, out) ==
    LET written == off..(off + size(sa) - 1)
        done == [raised |-> "", out |-> _startswith_loop(sa, needle, na, off, out, 0),
                 written |-> written, oob |-> FALSE]
    IN IF \A idx \in written : idx < Len(out) THEN {done}
       ELSE {[done EXCEPT !.raised = "IndexError", !.oob = TRUE],
             [done EXCEPT !.oob = TRUE]}

\* fletcher.algorithms.string._endswith
RECURSIVE _endswith_loop(_, _, _, _, _, _)
_endswith_loop(sa, needle, na, off, out, i) ==
    IF i < size(sa)
    THEN LET first == byte_length(sa, i) - NumbaString_length(needle)
             v == IF isnull(sa, i) THEN na
                  ELSE IF byte_length(sa, i) < NumbaString_length(needle) THEN 0
                  ELSE IF \A c \in 0..(NumbaString_length(needle) - 1) :
                             get_byte(sa, i, first + c) = NumbaString_get_byte(needle, c)
                  THEN 1 ELSE 0
         IN _endswith_loop(sa, needle, na, off, Store(out, off + i, v), i + 1)
    ELSE out

_endswith(sa, needle, na, off, out) ==
    LET written == off..(off + size(sa) - 1)
        done == [raised |-> "", out |-> _endswith_loop(sa, needle, na, off, out, 0),
                 written |-> written, oob |-> FALSE]
    IN IF \A idx \in written : idx < Len(out) THEN {done}
       ELSE {[done EXCEPT !.raised = "IndexError", !.oob = TRUE],
             [done EXCEPT !.oob = TRUE]}

\* startswith passes _startswith to _call_x_with, endswith passes _endswith
impl(fn, sa, needle, na, off, out) ==
    IF fn = "startswith" THEN _startswith(sa, needle, na, off, out)
    ELSE _endswith(sa, needle, na, off, out)

\* pa.array(result.astype(bool), mask=(result == 2)), one entry
TriState(r) == IF r = 2 THEN "null" ELSE IF r # 0 THEN "true" ELSE "false"

\* _call_x_with up to the branch on the kind of self.data
XWithBegin ==
    /\ pc = "call"
    /\ call.fn \in {"startswith", "endswith"}
    /\ output' = Zeros(len(call.array))
    /\ offset' = 0
    /\ chunk_idx' = 0
    /\ pc' = IF call.array.chunked THEN "chunks" ELSE "single"
    /\ UNCHANGED <<call, calls, ret>>
    /\ UNCHANGED builder_vars

\* one iteration of the loop over self.data.chunks
XWithChunk ==
    /\ pc = "chunks"
    /\ chunk_idx < Len(call.array.chunks)
    /\ LET chunk == call.array.chunks[chunk_idx + 1]
           str_arr == _make(chunk)
       IN \E r \in impl(call.fn, str_arr, _make_string(call.pat), 2, offset, output) :
            /\ output' = r.out
            /\ calls' = Append(calls, [chunk |-> chunk_idx, base |-> offset,
                                       written |-> r.written, oob |-> r.oob])
            /\ IF r.raised # ""
               THEN /\ pc' = "raised"
                    /\ ret' = [raised |-> r.raised]
                    /\ UNCHANGED <<offset, chunk_idx>>
               ELSE /\ offset' = offset + chunk.length
                    /\ chunk_idx' = chunk_idx + 1
                    /\ UNCHANGED <<pc, ret>>
    /\ UNCHANGED call
    /\ UNCHANGED builder_vars

\* the else branch: self.data is one pa.Array
XWithSingle ==
    /\ pc = "single"
    /\ LET str_arr == _make(call.array.chunks[1])
       IN \E r \in impl(call.fn, str_arr, _make_string(call.pat), 2, 0, output) :
            /\ output' = r.out
            /\ calls' = Append(calls, [chunk |-> 0, base |-> 0,
                                       written |-> r.written, oob |-> r.oob])
            /\ IF r.raised # ""
               THEN pc' = "raised" /\ ret' = [raised |-> r.raised]
               ELSE pc' = "return" /\ UNCHANGED ret
    /\ UNCHANGED <<call, offset, chunk_idx>>
    /\ UNCHANGED builder_vars

\* the return statement: the Series built from result
XWithReturn ==
    /\ \/ pc = "chunks" /\ chunk_idx = Len(call.array.chunks)
       \/ pc = "return"
    /\ ret' = [raised |-> "", values |-> [i \in 1..Len(output) |-> TriState(output[i])]]
    /\ pc' = "done"
    /\ UNCHANGED <<call, offset, chunk_idx, output, calls>>
    /\ UNCHANGED builder_vars

\* no builder is in use during an accessor call
IdleBuilder ==
    /\ missing = <<>>
    /\ offsets = <<0>>
    /\ data = <<>>
    /\ string_position = 0
    /\ byte_position = 0
    /\ string_capacity = 0
    /\ byte_capacity = 0
    /\ raised = ""
    /\ oob = FALSE
    /\ op = "init"
    /\ arg = 0
    /\ phase = "building"
    /\ elems = <<>>
    /\ pending = <<>>
    /\ failed = FALSE
    /\ reuse = 0
    /\ direct = 0

\* a call of startswith(pat) or endswith(pat) on an accessor over any array
InitXWith ==
    /\ IdleBuilder
    /\ call \in {[fn |-> f, array |-> a, pat |-> p] :
                    f \in {"startswith", "endswith"}, a \in Arrays, p \in Needles}
    /\ pc = "call"
    /\ chunk_idx = 0
    /\ offset = 0
    /\ output = <<>>
    /\ calls = <<>>
    /\ ret = [raised |-> ""]

NextXWith ==
    \/ XWithBegin
    \/ XWithChunk
    \/ XWithSingle
    \/ XWithReturn

SpecXWith == InitXWith /\ [][NextXWith]_vars

\* ------------------------------------------------------------------ contains
MaxPat == 2

\* the characters of a pattern: "a", "A" and "."
PatChars == {97, 65, 46}

Pats == UNION {[1..n -> PatChars] : n \in 0..MaxPat}

\* mutation of contains: the empty pattern is answered before regex is looked at
contains_empty_first(pat, case, regex) ==
    IF Len(pat) = 0 THEN [route |-> "all_true_like"]
    ELSE IF ~regex /\ case THEN [route |-> "contains_exact", pat |-> pat]
    ELSE [route |-> "_call_str_accessor", func |-> "contains",
          pat |-> pat, case |-> case, regex |-> regex]

\* TextAccessor.contains: the implementation that answers and what it is given
contains(pat, case, regex) ==
    LET delegate == [route |-> "_call_str_accessor", func |-> "contains",
                     pat |-> pat, case |-> case, regex |-> regex]
    IN IF ~regex
       THEN IF Len(pat) = 0 THEN [route |-> "all_true_like"]
            ELSE IF case THEN [route |-> "contains_exact", pat |-> pat]
            ELSE delegate
       ELSE delegate

Contains ==
    /\ pc = "call"
    /\ call.fn = "contains"
    /\ ret' = contains(call.pat, call.case, call.regex)
    /\ pc' = "done"
    /\ UNCHANGED <<call, chunk_idx, offset, output, calls>>
    /\ UNCHANGED builder_vars

\* a call of contains on an accessor over a whole array of at most one element
InitContains ==
    /\ IdleBuilder
    /\ call \in {[fn |-> "contains", array |-> a, pat |-> p, case |-> c, regex |-> r] :
                    a \in {a \in Arrays : len(a) <= 1 /\ NoHeadSlice(a)
                                             /\ Len(a.chunks) <= 1},
                    p \in Pats, c \in BOOLEAN, r \in BOOLEAN}
    /\ pc = "call"
    /\ chunk_idx = 0
    /\ offset = 0
    /\ output = <<>>
    /\ calls = <<>>
    /\ ret = [raised |-> ""]

NextContains == Contains

SpecContains == InitContains /\ [][NextContains]_vars

\* ----------------------------------------------------------------------- cat
CatElems == 2

\* the elements of the left operand: a null, "" and "a"
LeftElems ==
    {[null |-> TRUE, bytes |-> <<>>],
     [null |-> FALSE, bytes |-> <<>>],
     [null |-> FALSE, bytes |-> <<97>>]}

\* the elements of the right operand: a null, "" and "bc"
RightElems ==
    {[null |-> TRUE, bytes |-> <<>>],
     [null |-> FALSE, bytes |-> <<>>],
     [null |-> FALSE, bytes |-> <<98, 99>>]}

\* the ways of holding the elements es: one array, or a chunked array of up
\* to MaxChunks separately built chunks, of which only the first may be empty
Holdings(es) ==
    {Continuous(pa_array(es))}
    \cup UNION {{Chunked([i \in 1..c |-> pa_array(Sub(es, b[i], b[i + 1]))]) :
                    b \in {b \in Cuts(c, Len(es)) :
                              /\ b[1] = 0
                              /\ b[c + 1] = Len(es)
                              /\ \A i \in 2..c : b[i] < b[i + 1]}} :
                c \in 0..MaxChunks}

\* the Series passed as others
Others(array) ==
    [series |-> TRUE,
     values |-> IF array.chunked THEN "FletcherChunkedArray"
                ELSE "FletcherContinuousArray",
     data |-> array]

\* the pa.StringArray made of the buffers of a finished builder
from_builder(r) ==
    [validity |-> r.missing, offsets |-> r.offsets, data |-> r.data,
     offset |-> 0, length |-> r.string_position]

\* for c in range(sa.byte_length(i)): builder.put_byte(sa.get_byte(i, c)),
\* run on every possible outcome bs of the calls so far
RECURSIVE put_bytes(_, _, _, _)
put_bytes(bs, sa, i, c) ==
    IF c < byte_length(sa, i)
    THEN put_bytes(UNION {IF r.raised # "" THEN {r}
                          ELSE put_byte(r, get_byte(sa, i, c)) : r \in bs},
                   sa, i, c + 1)
    ELSE bs

\* fletcher.algorithms.string._text_cat, the loop over the elements
RECURSIVE _text_cat_loop(_, _, _, _, _)
_text_cat_loop(bs, va, vb, n, i) ==
    IF i < n
    THEN _text_cat_loop(
             IF isnull(va, i) \/ isnull(vb, i)
             THEN UNION {IF r.raised # "" THEN {r} ELSE finish_null(r) : r \in bs}
             ELSE UNION {IF r.raised # "" THEN {r} ELSE finish_string(r) :
                         r \in put_bytes(put_bytes(bs, va, i, 0), vb, i, 0)},
             va, vb, n, i + 1)
    ELSE bs

\* _text_cat(a, b) for two pa.Arrays: a builder sized to the element count
\* and to the sum of both operands' byte sizes
_text_cat(sa, sb) ==
    IF sa.length # sb.length
    THEN {[raised |-> "ValueError", array |-> pa_array(<<>>)]}
    ELSE {IF r.raised # ""
          THEN [raised |-> r.raised, array |-> pa_array(<<>>)]
          ELSE [raised |-> "", array |-> from_builder(finish(r))] :
          r \in _text_cat_loop(
                   {NewBuilder(sa.length, byte_size(_make(sa)) + byte_size(_make(sb)))},
                   _make(sa), _make(sb), sa.length, 0)}

\* array[lo : lo + n] as one pa.Array: a zero-copy slice of a pa.Array, the
\* elements combined into one array for a pa.ChunkedArray
take(array, lo, n) ==
    IF array.chunked THEN pa_array(Sub(Logical(array), lo, lo + n))
    ELSE slice(array.chunks[1], lo, n)

\* _text_cat_chunked(a, b), b chunked: the first c chunks of the result
RECURSIVE _text_cat_chunked_loop(_, _, _)
_text_cat_chunked_loop(a, b, c) ==
    IF c = 0 THEN {[raised |-> "", chunks |-> <<>>]}
    ELSE UNION {{IF p.raised # "" THEN p
                 ELSE IF r.raised # "" THEN [raised |-> r.raised, chunks |-> <<>>]
                 ELSE [raised |-> "", chunks |-> Append(p.chunks, r.array)] :
                 r \in _text_cat(take(a, SumLength(b.chunks, c - 1),
                                      b.chunks[c].length),
                                 b.chunks[c])} :
                p \in _text_cat_chunked_loop(a, b, c - 1)}

_text_cat_chunked(a, b) ==
    IF len(a) # len(b) THEN {[raised |-> "ValueError", chunks |-> <<>>]}
    ELSE _text_cat_chunked_loop(a, b, Len(b.chunks))

\* _text_cat_chunked_mixed(a, b), a chunked and b one pa.Array
RECURSIVE _text_cat_chunked_mixed_loop(_, _, _)
_text_cat_chunked_mixed_loop(a, b, c) ==
    IF c = 0 THEN {[raised |-> "", chunks |-> <<>>]}
    ELSE UNION {{IF p.raised # "" THEN p
                 ELSE IF r.raised # "" THEN [raised |-> r.raised, chunks |-> <<>>]
                 ELSE [raised |-> "", chunks |-> Append(p.chunks, r.array)] :
                 r \in _text_cat(a.chunks[c],
                                 take(b, SumLength(a.chunks, c - 1),
                                      a.chunks[c].length))} :
                p \in _text_cat_chunked_mixed_loop(a, b, c - 1)}

_text_cat_chunked_mixed(a, b) ==
    IF len(a) # len(b) THEN {[raised |-> "ValueError", chunks |-> <<>>]}
    ELSE _text_cat_chunked_mixed_loop(a, b, Len(a.chunks))

\* TextAccessor.cat(others)
cat(self_data, others) ==
    IF ~others.series
    THEN {[raised |-> "NotImplementedError", array |-> Chunked(<<>>)]}
    ELSE IF others.values = "FletcherChunkedArray"
    THEN {[raised |-> r.raised, array |-> Chunked(r.chunks)] :
          r \in _text_cat_chunked(self_data, others.data)}
    ELSE IF others.values # "FletcherContinuousArray"
    THEN {[raised |-> "NotImplementedError", array |-> Chunked(<<>>)]}
    ELSE IF self_data.chunked
    THEN {[raised |-> r.raised, array |-> Chunked(r.chunks)] :
          r \in _text_cat_chunked_mixed(self_data, others.data)}
    ELSE {[raised |-> r.raised, array |-> Continuous(r.array)] :
          r \in _text_cat(self_data.chunks[1], others.data.chunks[1])}

Cat ==
    /\ pc = "call"
    /\ call.fn = "cat"
    /\ \E r \in cat(call.array, call.others) :
        /\ ret' = r
        /\ pc' = "done"
    /\ UNCHANGED <<call, chunk_idx, offset, output, calls>>
    /\ UNCHANGED builder_vars

\* what cat may be given as others: a Series over an array of the same
\* length, over an empty or a one-element array, over something that is not a
\* fletcher array, or something that is not a Series
OthersFor(n) ==
    UNION {{Others(h) : h \in Holdings(eb)} :
           eb \in [1..n -> RightElems] \cup [1..0 -> RightElems]
                  \cup [1..1 -> RightElems]}
    \cup {[series |-> TRUE, values |-> "ndarray", data |-> Chunked(<<>>)],
          [series |-> FALSE, values |-> "ndarray", data |-> Chunked(<<>>)]}

InitCat ==
    /\ IdleBuilder
    /\ \E n \in 0..CatElems :
         \E o \in OthersFor(n) :
           \E ea \in [1..n -> LeftElems] :
             \E a \in Holdings(ea) :
               call = [fn |-> "cat", array |-> a, others |-> o]
    /\ pc = "call"
    /\ chunk_idx = 0
    /\ offset = 0
    /\ output = <<>>
    /\ calls = <<>>
    /\ ret = [raised |-> ""]

NextCat == Cat

SpecCat == InitCat /\ [][NextCat]_vars

\* ------------------------------------------------------------------ claims
\* validity bit number e of a bitmap
BitAt(m, e) == Bit(m[(e \div 8) + 1], e % 8)

CeilDiv(a, b) == (a + b - 1) \div b

\* ceil(1.2 * c) as the exact rational ceiling of 6c/5
CeilSixFifths(c) == CeilDiv(6 * c, 5)

\* the view over the builder's buffers reads back the sequence es for every
\* logical offset k
ReadsBack(es) ==
    LET n == Len(es)
    IN /\ Len(offsets) = n + 1
       /\ \A k \in 0..n :
            LET v == View(k)
            IN /\ size(v) = n - k
               /\ \A i \in 0..(n - k - 1) :
                    LET e == es[k + i + 1]
                    IN /\ isnull(v, i) = e.null
                       /\ ~e.null =>
                            /\ byte_length(v, i) = Len(e.bytes)
                            /\ \A j \in 0..(Len(e.bytes) - 1) :
                                 get_byte(v, i, j) = e.bytes[j + 1]

\* C1: whatever the initial capacities, once the caller's sequence has been
\* put through put_byte / finish_string / finish_null and finish(), the view
\* over the buffers reads back exactly that sequence for every offset k.
C1_RoundTrip == phase = "finished" => ReadsBack(elems)

\* what does hold: a build in which no call raised reads back
RoundTripOfCompletedBuild == (phase = "finished" /\ ~failed) => ReadsBack(elems)

\* C2: put_byte on an unfinished builder always completes: it stores b at
\* data[old byte_position], advances byte_position by one, and grows
\* byte_capacity to ceil(1.2 * byte_capacity) exactly when the old
\* byte_position >= byte_capacity.
C2_PutByteCompletes ==
    [][(op' = "put_byte" /\ phase = "building") =>
         /\ raised' = ""
         /\ byte_position' = byte_position + 1
         /\ byte_position < Len(data')
         /\ data'[byte_position + 1] = arg'
         /\ byte_capacity' = IF byte_position >= byte_capacity
                             THEN CeilSixFifths(byte_capacity)
                             ELSE byte_capacity]_vars

\* C3: finish_string on an unfinished builder always completes: it records
\* offsets[old string_position + 1] = byte_position, sets validity bit old
\* string_position, advances string_position by one, and grows
\* string_capacity (offsets and validity with it) to
\* ceil(1.2 * string_capacity) when old string_position >= string_capacity.
C3_FinishStringCompletes ==
    [][(op' = "finish_string" /\ phase = "building") =>
         /\ raised' = ""
         /\ string_position' = string_position + 1
         /\ string_position + 1 < Len(offsets')
         /\ offsets'[string_position + 2] = byte_position
         /\ string_position \div 8 < Len(missing')
         /\ BitAt(missing', string_position) = 1
         /\ string_capacity' = IF string_position >= string_capacity
                               THEN CeilSixFifths(string_capacity)
                               ELSE string_capacity
         /\ Len(offsets') = string_capacity' + 1
         /\ Len(missing') = CeilDiv(string_capacity', 8)]_vars

\* C4: from every state of an unfinished builder, finish_null and
\* finish_string end alike (both complete or both raise the same error) and
\* leave the same offsets, data, positions, capacities and validity bits,
\* except that validity bit old string_position is 0 after a completed
\* finish_null and 1 after a completed finish_string.
C4_FinishNullLikeFinishString ==
    phase = "building" =>
        /\ Cardinality(finish_null(self)) = 1
        /\ Cardinality(finish_string(self)) = 1
        /\ \A n \in finish_null(self), s \in finish_string(self) :
            /\ n.raised = s.raised
            /\ n.oob = s.oob
            /\ n.offsets = s.offsets
            /\ n.data = s.data
            /\ n.string_position = s.string_position
            /\ n.byte_position = s.byte_position
            /\ n.string_capacity = s.string_capacity
            /\ n.byte_capacity = s.byte_capacity
            /\ Len(n.missing) = Len(s.missing)
            /\ \A e \in 0..(8 * Len(n.missing) - 1) :
                 e # string_position => BitAt(n.missing, e) = BitAt(s.missing, e)
            /\ n.raised = "" =>
                 /\ BitAt(n.missing, string_position) = 0
                 /\ BitAt(s.missing, string_position) = 1

\* a ninth element is about to be sealed after a null: the two seals differ
\* in bit 8, which np.ones or an earlier growth left behind
C4_Witness ==
    /\ phase = "building"
    /\ op = "finish_null"
    /\ raised = ""
    /\ string_position = 8
    /\ byte_position > 0
    /\ \E n \in finish_null(self), s \in finish_string(self) :
         /\ n.raised = ""
         /\ s.raised = ""
         /\ BitAt(n.missing, 8) = 0
         /\ BitAt(s.missing, 8) = 1

\* C5: finish() on a builder that has only seen put_byte / finish_string /
\* finish_null (possibly none) leaves validity with ceil(string_position/8)
\* bytes, offsets with string_position + 1 entries and data with
\* byte_position bytes, each the unchanged prefix of the buffer before.
C5_FinishTrims ==
    [][(op' = "finish" /\ phase = "building") =>
         /\ UNCHANGED <<string_position, byte_position>>
         /\ Len(missing') = CeilDiv(string_position, 8)
         /\ Len(offsets') = string_position + 1
         /\ Len(data') = byte_position
         /\ \A i \in 1..Len(missing') : missing'[i] = missing[i]
         /\ \A i \in 1..Len(offsets') : offsets'[i] = offsets[i]
         /\ \A i \in 1..Len(data') : data'[i] = data[i]]_vars

\* finish() cut unused capacity off all three buffers of a nine-element build
C5_Witness ==
    /\ op = "finish"
    /\ phase = "finished"
    /\ string_position >= 9
    /\ byte_position >= 1
    /\ Len(missing) = 2
    /\ Len(offsets) < string_capacity + 1
    /\ Len(data) = byte_position

\* C6: while building, byte_position <= byte_capacity and
\* string_position <= string_capacity.
C6_CapacityInvariant ==
    phase = "building" =>
        /\ byte_position <= byte_capacity
        /\ string_position <= string_capacity

\* both buffers are full after both have grown
C6_Witness ==
    /\ phase = "building"
    /\ op = "put_byte"
    /\ raised = ""
    /\ byte_position = byte_capacity
    /\ string_position = string_capacity
    /\ byte_position >= 3
    /\ string_position >= 3

\* C7: a growth of the byte capacity leaves data[0 .. byte_position-1] as it
\* was, a growth of the string capacity leaves offsets[0 .. string_position]
\* and validity bits 0 .. string_position-1 as they were, and a call of
\* increase_string_capacity / increase_byte_capacity changes neither
\* string_position nor byte_position.
C7_GrowthPreserves ==
    [][phase = "building" =>
         /\ byte_capacity' > byte_capacity =>
              /\ Len(data') = byte_capacity'
              /\ \A i \in 1..byte_position : data'[i] = data[i]
         /\ string_capacity' > string_capacity =>
              /\ Len(offsets') = string_capacity' + 1
              /\ \A i \in 1..(string_position + 1) : offsets'[i] = offsets[i]
              /\ \A e \in 0..(string_position - 1) :
                   BitAt(missing', e) = BitAt(missing, e)
         /\ op' \in {"increase_string_capacity", "increase_byte_capacity"} =>
              UNCHANGED <<string_position, byte_position>>]_vars

\* a direct growth of the string capacity with a null and bytes already written
C7_Witness ==
    /\ phase = "building"
    /\ op = "increase_string_capacity"
    /\ raised = ""
    /\ string_capacity = arg
    /\ string_position >= 2
    /\ byte_position >= 1
    /\ \E e \in 0..(string_position - 1) : BitAt(missing, e) = 0
    /\ \E e \in 0..(string_position - 1) : BitAt(missing, e) = 1

\* C8: increase_string_capacity / increase_byte_capacity called with a
\* capacity <= the current one (directly, or by put_byte / finish_string /
\* finish_null when ceil(1.2 * capacity) is no larger) raises AssertionError
\* and leaves buffers, capacities and positions as they were.
C8_GrowthAsserts ==
    [][((op' = "increase_string_capacity" /\ arg' <= string_capacity)
          \/ (op' = "increase_byte_capacity" /\ arg' <= byte_capacity)
          \/ (op' \in {"finish_string", "finish_null"}
                /\ string_position >= string_capacity
                /\ CeilSixFifths(string_capacity) <= string_capacity)
          \/ (op' = "put_byte"
                /\ byte_position >= byte_capacity
                /\ CeilSixFifths(byte_capacity) <= byte_capacity)) =>
         /\ raised' = "AssertionError"
         /\ UNCHANGED <<missing, offsets, data, string_position, byte_position,
                        string_capacity, byte_capacity>>]_vars

\* a direct call with a smaller capacity on a builder that holds content
C8_Witness ==
    /\ op = "increase_string_capacity"
    /\ arg < string_capacity
    /\ raised = "AssertionError"
    /\ string_position >= 1
    /\ byte_position >= 1

\* C9: over the same buffers the view with logical offset k reads at i what
\* the view with logical offset 0 reads at k + i: isnull, byte_length and
\* every get_byte.
C9_SlicingCommutes ==
    phase = "finished" =>
        LET whole == View(0)
        IN \A k \in 0..size(whole) :
            LET tail == View(k)
            IN \A i \in 0..(size(tail) - 1) :
                /\ isnull(tail, i) = isnull(whole, k + i)
                /\ byte_length(tail, i) = byte_length(whole, k + i)
                /\ \A j \in 0..(byte_length(whole, k + i) - 1) :
                     get_byte(tail, i, j) = get_byte(whole, k + i, j)

\* a tail view whose first element is not the first element of the buffers:
\* element 0 is a non-empty string, element 8 (second bitmap byte) a null
C9_Witness ==
    /\ phase = "finished"
    /\ Len(offsets) = 10
    /\ size(View(8)) = 1
    /\ isnull(View(8), 0)
    /\ ~isnull(View(0), 0)
    /\ byte_length(View(0), 0) = 1
    /\ byte_length(View(8), 0) = 0

\* the byte-level reads of element i of view v stay inside the buffers
ByteLevelReadsSucceed(v, i) ==
    LET idx == i + v.offset
    IN /\ idx \div 8 < Len(v.missing)
       /\ idx + 1 < Len(v.offsets)
       /\ \A j \in 0..(byte_length(v, i) - 1) : v.offsets[idx + 1] + j < Len(v.data)

HasHighByte(v, i) ==
    \E j \in 0..(byte_length(v, i) - 1) : get_byte(v, i, j) > 127

\* C10: length(i) and decode(i) raise exactly when element i holds a byte
\* above 127 and then return nothing; isnull, byte_length and get_byte
\* succeed on every element, such elements included.
C10_EncodingLimitation ==
    phase = "finished" =>
        \A k \in 0..(Len(offsets) - 1) :
            \A i \in 0..(size(View(k)) - 1) :
                /\ ByteLevelReadsSucceed(View(k), i)
                /\ (length(View(k), i).raised = "ValueError") <=> HasHighByte(View(k), i)
                /\ (decode(View(k), i).raised = "ValueError") <=> HasHighByte(View(k), i)
                /\ length(View(k), i).raised \in {"", "ValueError"}
                /\ decode(View(k), i).raised \in {"", "ValueError"}
                /\ HasHighByte(View(k), i) =>
                     /\ length(View(k), i).value = -1
                     /\ decode(View(k), i).value = <<>>

\* one element with an ASCII byte before a byte above 127 (length and decode
\* give up part-way), next to an element that decodes
C10_Witness ==
    /\ phase = "finished"
    /\ Len(offsets) >= 3
    /\ byte_length(View(0), 0) = 2
    /\ get_byte(View(0), 0, 0) <= 127
    /\ get_byte(View(0), 0, 1) > 127
    /\ length(View(0), 0).raised = "ValueError"
    /\ decode(View(0), 0).raised = "ValueError"
    /\ byte_length(View(1), 0) = 1
    /\ length(View(1), 0) = [raised |-> "", value |-> 1]
    /\ decode(View(1), 0).raised = ""


\* C16: while building, offsets[0] = 0, offsets[0..string_position] is
\* non-decreasing and offsets[string_position] <= byte_position; in a view
\* over the finished buffers every offset is at most len(data) and every
\* get_byte(i, j) with 0 <= j < byte_length(i) reads inside data.
C16_OffsetsInvariant ==
    /\ phase = "building" =>
         /\ offsets[1] = 0
         /\ \A i \in 1..string_position : offsets[i] <= offsets[i + 1]
         /\ offsets[string_position + 1] <= byte_position
    /\ phase = "finished" =>
         /\ \A i \in 1..Len(offsets) : offsets[i] <= Len(data)
         /\ \A k \in 0..(Len(offsets) - 1) :
              \A i \in 0..(size(View(k)) - 1) :
                \A j \in 0..(byte_length(View(k), i) - 1) :
                    /\ offsets[k + i + 1] + j >= 0
                    /\ offsets[k + i + 1] + j < Len(data)

\* a finished build of a one-byte string, a null and a two-byte string
C16_Witness ==
    /\ phase = "finished"
    /\ ~failed
    /\ offsets = <<0, 1, 1, 3>>
    /\ Len(data) = 3
    /\ isnull(View(0), 1)

\* every byte of element i of the view is at most 127
AllAscii(v, i) == \A j \in 0..(byte_length(v, i) - 1) : get_byte(v, i, j) <= 127

\* C17: for an element whose bytes are all <= 127, length(i) equals
\* byte_length(i) (one loop step per byte, none for an empty element) and
\* decode(i) returns exactly byte_length(i) codepoints, codepoint c being
\* get_byte(i, c).
C17_AsciiDecoding ==
    phase = "finished" =>
        \A k \in 0..(Len(offsets) - 1) :
          \A i \in 0..(size(View(k)) - 1) :
            AllAscii(View(k), i) =>
                /\ length(View(k), i) =
                       [raised |-> "", value |-> byte_length(View(k), i)]
                /\ decode(View(k), i).raised = ""
                /\ Len(decode(View(k), i).value) = byte_length(View(k), i)
                /\ \A c \in 0..(byte_length(View(k), i) - 1) :
                       decode(View(k), i).value[c + 1] = get_byte(View(k), i, c)

\* a finished build holding an empty element and a two-byte ASCII element,
\* read through a view of logical offset 1
C17_Witness ==
    /\ phase = "finished"
    /\ ~failed
    /\ Len(offsets) = 4
    /\ byte_length(View(1), 0) = 0
    /\ byte_length(View(1), 1) = 2
    /\ AllAscii(View(1), 1)
    /\ decode(View(1), 1).value = <<65, 65>>

\* len(data) = byte_capacity, len(offsets) = string_capacity + 1 and
\* len(validity) = ceil(string_capacity / 8)
Consistent ==
    /\ Len(data) = byte_capacity
    /\ Len(offsets) = string_capacity + 1
    /\ Len(missing) = CeilDiv(string_capacity, 8)

\* C18: before finish the buffer lengths agree with the capacities and no call
\* indexes outside a buffer; finish() trims the buffers and keeps the
\* capacities, so the agreement survives finish only when no capacity was
\* left unused, and after finish a put_byte with byte_position below
\* byte_capacity, or a finish_string with string_position below
\* string_capacity, indexes past the trimmed buffer.
C18_BufferCapacityConsistency ==
    [][/\ phase = "building" => Consistent
       /\ phase' = "building" => (Consistent' /\ ~oob')
       /\ (phase = "building" /\ op' = "finish") =>
            /\ byte_capacity' = byte_capacity
            /\ string_capacity' = string_capacity
            /\ Len(data') = byte_position
            /\ Len(offsets') = string_position + 1
            /\ Len(missing') = CeilDiv(string_position, 8)
            /\ Consistent' <=> (byte_position = byte_capacity
                                /\ string_position = string_capacity)
       /\ (phase = "finished" /\ op' = "put_byte"
             /\ byte_position < byte_capacity) => oob'
       /\ (phase = "finished" /\ op' = "finish_string"
             /\ string_position < string_capacity) => oob'
      ]_vars

\* a put_byte issued after finish() stored past the trimmed data buffer and
\* went unnoticed
C18_Witness ==
    /\ phase = "reused"
    /\ op = "put_byte"
    /\ oob
    /\ raised = ""
    /\ byte_position > Len(data)
    /\ ~Consistent

\* C19: a second finish() directly after a finish() leaves validity, offsets,
\* data, string_position and byte_position as the first call left them.
C19_FinishIdempotent ==
    op = "finish" =>
        /\ finish(self).missing = missing
        /\ finish(self).offsets = offsets
        /\ finish(self).data = data
        /\ finish(self).string_position = string_position
        /\ finish(self).byte_position = byte_position

\* the state after a finish() that trimmed all three buffers
C19_Witness ==
    /\ op = "finish"
    /\ phase = "finished"
    /\ string_position >= 1
    /\ string_position < string_capacity
    /\ byte_position >= 1
    /\ byte_position < byte_capacity
    /\ Len(data) = byte_position

\* C20: once e < string_position, no put_byte, finish_string, finish_null or
\* capacity growth changes offsets[e], offsets[e+1], validity bit e or the
\* data bytes of element e; put_byte changes only data[byte_position] and
\* byte_position (and the byte capacity when it grows); finish_string and
\* finish_null change neither data nor byte_position.
C20_SealedElementsKept ==
    [][(phase = "building" /\ phase' = "building") =>
        /\ \A e \in 0..(string_position - 1) :
             /\ offsets'[e + 1] = offsets[e + 1]
             /\ offsets'[e + 2] = offsets[e + 2]
             /\ BitAt(missing', e) = BitAt(missing, e)
             /\ \A p \in offsets[e + 1]..(offsets[e + 2] - 1) :
                    data'[p + 1] = data[p + 1]
        /\ op' = "put_byte" =>
             /\ missing' = missing
             /\ offsets' = offsets
             /\ string_position' = string_position
             /\ string_capacity' = string_capacity
             /\ byte_position' = IF raised' = "" THEN byte_position + 1
                                 ELSE byte_position
             /\ \A p \in 0..(Len(data) - 1) :
                    (p # byte_position \/ raised' # "") => data'[p + 1] = data[p + 1]
             /\ Len(data') = byte_capacity'
        /\ op' \in {"finish_string", "finish_null"} =>
             /\ data' = data
             /\ byte_position' = byte_position
             /\ byte_capacity' = byte_capacity
      ]_vars

\* a direct growth of the string capacity after a null and a non-empty string
\* had been sealed
C20_Witness ==
    /\ phase = "building"
    /\ op = "increase_string_capacity"
    /\ raised = ""
    /\ string_position = 2
    /\ BitAt(missing, 0) = 0
    /\ BitAt(missing, 1) = 1
    /\ offsets[3] - offsets[2] >= 1

StartsWithBytes(bytes, nb) ==
    /\ Len(bytes) >= Len(nb)
    /\ \A c \in 1..Len(nb) : bytes[c] = nb[c]

EndsWithBytes(bytes, nb) ==
    /\ Len(bytes) >= Len(nb)
    /\ \A c \in 1..Len(nb) : bytes[Len(bytes) - Len(nb) + c] = nb[c]

\* the tri-state result the contract asks for
Expected(fn, e, nb) ==
    IF e.null THEN "null"
    ELSE IF fn = "startswith" /\ StartsWithBytes(e.bytes, nb) THEN "true"
    ELSE IF fn = "endswith" /\ EndsWithBytes(e.bytes, nb) THEN "true"
    ELSE "false"

\* C11: for a chunked array the chunks are processed in order, chunk c is
\* run with the base offset sum(len(chunk) for chunks before c), writes only
\* the entries [base, base + len(chunk)), the regions are disjoint, every
\* entry is written exactly once and no write falls outside the output
\* buffer of len(data) entries.
C11_ChunkIteration ==
    (call.fn \in {"startswith", "endswith"} /\ call.array.chunked) =>
        /\ \A c \in 1..Len(calls) :
             LET base == SumLength(call.array.chunks, c - 1)
             IN /\ calls[c].chunk = c - 1
                /\ calls[c].base = base
                /\ calls[c].written =
                       base..(base + call.array.chunks[c].length - 1)
                /\ \A idx \in calls[c].written : idx < Len(output)
                /\ ~calls[c].oob
        /\ \A c \in 1..Len(calls) : \A d \in 1..Len(calls) :
             c # d => calls[c].written \cap calls[d].written = {}
        /\ pc = "done" =>
             /\ Len(output) = len(call.array)
             /\ \A idx \in 0..(Len(output) - 1) :
                  Cardinality({c \in 1..Len(calls) : idx \in calls[c].written}) = 1

\* C12: startswith / endswith return, for every array and needle, one entry
\* per element: null iff the element is null, otherwise true iff the element
\* is at least as long as the needle and its first / last bytes equal it; the
\* sentinel 2 of the output buffer becomes null; the empty array gives the
\* empty result.
C12_TriStateResult ==
    call.fn \in {"startswith", "endswith"} =>
        /\ pc # "raised"
        /\ pc = "done" =>
             /\ ret.raised = ""
             /\ Len(ret.values) = len(call.array)
             /\ \A g \in 1..len(call.array) :
                  ret.values[g] = Expected(call.fn, Logical(call.array)[g],
                                           encode(call.pat))

\* C15: for every zero-copy slice, tail or head, the view made over it has
\* size equal to the slice length.
C15_ViewElementCount ==
    call.fn \in {"startswith", "endswith"} =>
        \A c \in 1..Len(call.array.chunks) :
            size(_make(call.array.chunks[c])) = call.array.chunks[c].length

\* whenever startswith / endswith return, on any array, the entries returned
\* are the ones the contract asks for
ReturnedEntriesAreRight ==
    (call.fn \in {"startswith", "endswith"} /\ pc = "done") =>
        /\ Len(ret.values) = len(call.array)
        /\ \A g \in 1..len(call.array) :
             ret.values[g] = Expected(call.fn, Logical(call.array)[g],
                                      encode(call.pat))

\* on arrays made of whole arrays and tail slices the three properties hold
XWithOnWholeAndTailSlices ==
    (call.fn \in {"startswith", "endswith"} /\ NoHeadSlice(call.array)) =>
        /\ C11_ChunkIteration
        /\ C12_TriStateResult
        /\ C15_ViewElementCount

\* C14: contains delegates to the generic string-accessor path whenever
\* regex is True, for every pat and case, and also when regex is False,
\* case is False and pat is not empty; a byte-level path (all_true_like,
\* contains_exact) is taken only when regex is False and pat is empty or
\* case is True.
C14_DelegationBoundary ==
    (call.fn = "contains" /\ pc = "done") =>
        LET delegated == ret.route = "_call_str_accessor"
        IN /\ call.regex => delegated
           /\ (~call.regex /\ ~call.case /\ Len(call.pat) > 0) => delegated
           /\ delegated =>
                /\ ret.func = "contains"
                /\ ret.pat = call.pat
                /\ ret.case = call.case
                /\ ret.regex = call.regex
           /\ ~delegated =>
                /\ ret.route \in {"all_true_like", "contains_exact"}
                /\ ~call.regex
                /\ Len(call.pat) = 0 \/ call.case
           /\ ret.route = "all_true_like" => Len(call.pat) = 0
           /\ ret.route = "contains_exact" => (call.case /\ Len(call.pat) > 0)

\* contains("", case=False, regex=True) on a one-element array was delegated
C14_Witness ==
    /\ call.fn = "contains"
    /\ pc = "done"
    /\ call.regex
    /\ ~call.case
    /\ call.pat = <<>>
    /\ len(call.array) = 1
    /\ ret.route = "_call_str_accessor"

\* cat was called with a Series over a fletcher array as long as self.data
CatAccepts ==
    /\ call.fn = "cat"
    /\ call.others.series
    /\ call.others.values \in {"FletcherChunkedArray", "FletcherContinuousArray"}
    /\ len(call.array) = len(call.others.data)

\* z is the element cat has to produce for the elements x and y
Concatenated(x, y, z) ==
    /\ z.null = (x.null \/ y.null)
    /\ ~z.null =>
         /\ Len(z.bytes) = Len(x.bytes) + Len(y.bytes)
         /\ \A p \in 1..Len(x.bytes) : z.bytes[p] = x.bytes[p]
         /\ \A p \in 1..Len(y.bytes) : z.bytes[Len(x.bytes) + p] = y.bytes[p]

====
